---------------------------- MODULE Spec2Model ----------------------------
(***************************************************************************)
(* Feature pipeline of ai-sports-pick-generator: the raw game-log store,   *)
(* the backfill path (backfill_features.py), the pregame path              *)
(* (build_pregame_features.py), the truth-snapshot aggregates              *)
(* (build_truth_training_snapshot.py) and the player_game_features table.  *)
(*                                                                         *)
(* One tracked statistic (pts) stands for the five the scripts treat       *)
(* alike (minutes, pts, reb, ast, pra): every statistic goes through the   *)
(* same rolling_prior_mean / last_n_avg calls, column by column.           *)
(* Dates are day numbers.  A mean is an exact fraction <<num, den>>.       *)
(***************************************************************************)
EXTENDS Integers, Sequences, FiniteSets, TLC

VARIABLES
  logs,       \* v_player_game_logs_all: key -> pts cell, NoRow when absent
  features,   \* player_game_features: the set of stored records
  writes,     \* per key, the records sent to player_game_features, latest last
  now,        \* clock read for computed_at; it ticks with every write
  rowOrder,   \* order in which the store returns rows of an unordered select
  payload,    \* a feature row on its way to a materializer, NoPayload when none
  sent,       \* what the materializer did with the payload
  slate,      \* a feature row read by a prediction script, NoSlate when none
  prediction, \* what the prediction script computed for the slate
  call,       \* the last helper call examined: its arguments and its result
  pager,      \* a fetch_all in progress: the store's rows, offset, out
  sync,       \* a box-score sync run (official-working-version.main)
  run         \* the last feature run started with its flags: what it did

vars == <<logs, features, writes, now, rowOrder, payload, sent, slate, prediction,
          call, pager, sync, run>>

\* the variables of the script runs examined step by step
runVars == <<call, pager, sync, run>>

\* the variables of the prediction scripts
predVars == <<slate, prediction>>

\* the variables of the materializers' validation step
sendVars == <<payload, sent>>
\* the variables of the feature pipeline
pipeVars == <<logs, features, writes, now, rowOrder>>

-----------------------------------------------------------------------------
(* Values *)

\* None / NaN / pd.NA of a numeric column
NULL == -1
\* no row stored under a key
NoRow == -2
\* a --start / --end that was not given (None)
NoDate == -999
\* the mean of no values (None / NaN)
NullMean == <<0, 0>>

\* values a pts cell of v_player_game_logs_all takes
PtsValues == {0, 10}

-----------------------------------------------------------------------------
(* Bounds *)

\* rows the raw log store holds at most
MaxLogs == 5
\* size of a pipeline history: rows of the raw log store plus writes to
\* player_game_features
MaxPipelineSize == 3
\* largest --chunk-days tried
MaxChunkDays == 2

-----------------------------------------------------------------------------
(* Static reference data: v_nba_games_all, team_id_to_team, the players'   *)
(* team abbreviations as the upstream provider reports them.               *)

Players == {1, 2}

\* v_nba_games_all: game_id -> game_date, season, home_team_id, away_team_id
\* (game 3 and game 4 are played on the same day; team 30 has no directory
\*  entry; game 4 has no home team id yet)
v_nba_games_all ==
  [g \in 0..5 |->
     CASE g = 0 -> [game_date |-> -100, season |-> "2024-25", home_team_id |-> 10,   away_team_id |-> 20]
       [] g = 1 -> [game_date |-> 1,    season |-> "2025-26", home_team_id |-> 10,   away_team_id |-> 20]
       [] g = 2 -> [game_date |-> 2,    season |-> "2025-26", home_team_id |-> 20,   away_team_id |-> 10]
       [] g = 3 -> [game_date |-> 3,    season |-> "2025-26", home_team_id |-> 10,   away_team_id |-> 30]
       [] g = 4 -> [game_date |-> 3,    season |-> "2025-26", home_team_id |-> NULL, away_team_id |-> 10]
       [] g = 5 -> [game_date |-> 4,    season |-> "2025-26", home_team_id |-> 30,   away_team_id |-> 20]]

Games == DOMAIN v_nba_games_all

\* team_id_to_team: team_id -> abbreviation
team_id_to_team == [t \in {10, 20} |-> IF t = 10 THEN "BOS" ELSE "lal"]

\* natural keys (game_id, player_id) that the provider can report:
\* player 1 appears in every game, player 2 in game 3 only
Keys == {<<g, 1>> : g \in Games} \cup {<<3, 2>>}

\* team_abbr of the row of key k (logs and roster carry the same text)
team_abbr_of(k) == IF k[2] = 1 THEN "bos" ELSE ""

GameDate(k) == v_nba_games_all[k[1]].game_date
Season(k) == v_nba_games_all[k[1]].season

Dates == {v_nba_games_all[g].game_date : g \in Games}
Seasons == {v_nba_games_all[g].season : g \in Games}

\* str.upper() on the abbreviations that occur
Upper(s) ==
  CASE s = "bos" -> "BOS"
    [] s = "lal" -> "LAL"
    [] OTHER -> s

-----------------------------------------------------------------------------
(* Arithmetic on sequences of cell values *)

RECURSIVE GCD(_, _)
GCD(a, b) == IF b = 0 THEN a ELSE GCD(b, a % b)

\* the float sum / count, kept exact
Frac(sum, cnt) == IF cnt = 0 THEN NullMean
                  ELSE <<sum \div GCD(sum, cnt), cnt \div GCD(sum, cnt)>>

RECURSIVE SumSeq(_)
SumSeq(s) == IF s = <<>> THEN 0 ELSE Head(s) + SumSeq(Tail(s))

\* Series.dropna()
dropna(s) == SelectSeq(s, LAMBDA v : v # NULL)

\* Series.tail(n)
tail(s, n) == IF Len(s) <= n THEN s ELSE SubSeq(s, Len(s) - n + 1, Len(s))

\* Series.mean(): NaN cells are skipped, NaN when nothing is left
mean(s) == Frac(SumSeq(dropna(s)), Len(dropna(s)))

\* Series.shift(1)
shift1(s) == IF s = <<>> THEN <<>> ELSE <<NULL>> \o SubSeq(s, 1, Len(s) - 1)

\* Series.rolling(window, min_periods=1).mean(): a window of `window` rows
rolling_mean(s, window) ==
  [i \in 1..Len(s) |-> mean(SubSeq(s, IF i - window + 1 < 1 THEN 1 ELSE i - window + 1, i))]

\* Series.expanding(min_periods=1).mean()
expanding_mean(s) == [i \in 1..Len(s) |-> mean(SubSeq(s, 1, i))]

\* backfill_features.rolling_prior_mean
rolling_prior_mean(s, window) == rolling_mean(shift1(s), window)

\* backfill_features.season_to_date_prior_mean
season_to_date_prior_mean(s) == expanding_mean(shift1(s))

\* build_pregame_features.compute_rolling_features.last_n_avg
last_n_avg(col, n) == IF dropna(col) = <<>> THEN NullMean ELSE mean(tail(dropna(col), n))

\* season_avg taking a zero for a missing value
season_avg_zero_missing(col) ==
  LET s == SelectSeq(col, LAMBDA v : v # NULL /\ v # 0)
  IN IF s = <<>> THEN NullMean ELSE mean(s)

\* build_pregame_features.compute_rolling_features.season_avg
season_avg(col) == IF dropna(col) = <<>> THEN NullMean ELSE mean(dropna(col))


-----------------------------------------------------------------------------
(* Reading the raw store *)

\* q.gte(date_col, start) / q.lte(date_col, end), each applied when given
InRange(d, lo, hi) == (lo = NoDate \/ d >= lo) /\ (hi = NoDate \/ d <= hi)

\* backfill_features.fetch_all over v_player_game_logs_all
fetch_all(lg, lo, hi) == {k \in Keys : lg[k] # NoRow /\ InRange(GameDate(k), lo, hi)}

\* the order in which an unordered select returns two rows
StoreBefore(a, b, ord) ==
  IF a[1] # b[1] THEN (IF ord = "asc" THEN a[1] < b[1] ELSE a[1] > b[1])
  ELSE a[2] < b[2]

\* DataFrame.sort_values(game_date) within one group: stable, so rows of the
\* same date keep the order in which they were fetched
RECURSIVE sort_values(_, _)
sort_values(S, ord) ==
  IF S = {} THEN <<>>
  ELSE LET m == CHOOSE x \in S : \A y \in S \ {x} :
                   \/ GameDate(x) < GameDate(y)
                   \/ GameDate(x) = GameDate(y) /\ StoreBefore(x, y, ord)
       IN <<m>> \o sort_values(S \ {m}, ord)

IndexOf(seq, k) == CHOOSE i \in 1..Len(seq) : seq[i] = k

\* backfill_features.daterange_chunks
RECURSIVE chunks_from(_, _, _)
chunks_from(cur, end, chunk_days) ==
  IF cur > end THEN <<>>
  ELSE LET nxt == IF end < cur + chunk_days - 1 THEN end ELSE cur + chunk_days - 1
       IN <<<<cur, nxt>>>> \o chunks_from(nxt + 1, end, chunk_days)

\* the whole window as one chunk
daterange_single_chunk(start, end, chunk_days) ==
  IF start = NoDate \/ end = NoDate THEN <<<<NoDate, NoDate>>>>
  ELSE IF start > end THEN <<>> ELSE <<<<start, end>>>>

daterange_chunks(start, end, chunk_days) ==
  IF start = NoDate \/ end = NoDate THEN <<<<NoDate, NoDate>>>>
  ELSE chunks_from(start, end, chunk_days)

-----------------------------------------------------------------------------
(* Backfill path: backfill_features.py *)

\* add_home_away: the abbreviation joined to a team id (NaN when no entry)
NoAbbr == "<NA>"
joined_abbr(team_id) ==
  IF team_id \in DOMAIN team_id_to_team THEN Upper(team_id_to_team[team_id]) ELSE NoAbbr

\* a comparison with NaN is False
AbbrEq(a, b) == a # NoAbbr /\ b # NoAbbr /\ a = b

\* add_home_away: is_home and opponent_team_id of the log row k
add_home_away(k) ==
  LET gm   == v_nba_games_all[k[1]]
      u    == Upper(team_abbr_of(k))
      home == AbbrEq(u, joined_abbr(gm.home_team_id))
      away == AbbrEq(u, joined_abbr(gm.away_team_id))
  IN [is_home |-> IF away THEN "false" ELSE IF home THEN "true" ELSE "null",
      opponent_team_id |-> IF away THEN gm.home_team_id
                           ELSE IF home THEN gm.away_team_id ELSE NULL]

\* the (season, player_id) group of row k among the rows fetched for one
\* chunk, sorted by game_date
backfill_group(lg, ord, lo, hi, k) ==
  sort_values({j \in fetch_all(lg, lo, hi) : j[2] = k[2] /\ Season(j) = Season(k)}, ord)

\* compute_schedule_flags.flags_for_group: ones.rolling("4D").sum() at row i,
\* the window (date_i - days, date_i] over the rows up to and including i
rolling_days_count(dates, i, days) ==
  Cardinality({j \in 1..i : dates[j] > dates[i] - days})

\* compute_schedule_flags on one group, row i
compute_schedule_flags(dates, i) ==
  LET prev_game_date == IF i = 1 THEN NoDate ELSE dates[i - 1]
      days_rest == IF prev_game_date = NoDate THEN NULL ELSE dates[i] - prev_game_date
  IN [days_rest |-> days_rest,
      is_back_to_back |-> (days_rest # NULL /\ days_rest = 1),
      is_3_in_4 |-> rolling_days_count(dates, i, 4) >= 3,
      is_4_in_6 |-> rolling_days_count(dates, i, 6) >= 4]

\* compute_features: the record written for log row k when the chunk
\* [lo, hi] is processed at time t
compute_features(lg, ord, lo, hi, k, t) ==
  LET grp   == backfill_group(lg, ord, lo, hi, k)
      i     == IndexOf(grp, k)
      pts   == [j \in 1..Len(grp) |-> lg[grp[j]]]
      dates == [j \in 1..Len(grp) |-> GameDate(grp[j])]
      ha    == add_home_away(k)
      fl    == compute_schedule_flags(dates, i)
  IN [game_id |-> k[1], player_id |-> k[2],
      season |-> Season(k), game_date |-> GameDate(k),
      team_abbr |-> team_abbr_of(k),
      opponent_team_id |-> ha.opponent_team_id, is_home |-> ha.is_home,
      pts |-> lg[k],
      pts_l3 |-> rolling_prior_mean(pts, 3)[i],
      pts_l5 |-> rolling_prior_mean(pts, 5)[i],
      pts_l10 |-> rolling_prior_mean(pts, 10)[i],
      pts_season_avg |-> season_to_date_prior_mean(pts)[i],
      days_rest |-> fl.days_rest, is_back_to_back |-> fl.is_back_to_back,
      is_3_in_4 |-> fl.is_3_in_4, is_4_in_6 |-> fl.is_4_in_6,
      computed_at |-> t]

\* main: the rows one chunk sends to upsert_batches
backfill_chunk(lg, ord, lo, hi, t) ==
  {compute_features(lg, ord, lo, hi, k, t) : k \in fetch_all(lg, lo, hi)}

\* main: the rows of all chunks of a run (chunks hold disjoint keys)
backfill_rows(lg, ord, start, end, chunk_days, t) ==
  LET cs == daterange_chunks(start, end, chunk_days)
  IN UNION {backfill_chunk(lg, ord, cs[c][1], cs[c][2], t) : c \in 1..Len(cs)}

-----------------------------------------------------------------------------
(* Pregame path: build_pregame_features.py *)

\* day number of 1 October 2025, the first day of season 2025-26
SeasonStartDay == 0

\* season_from_game_date_str: the season starts in October
season_from_game_date_str(d) == IF d >= SeasonStartDay THEN "2025-26" ELSE "2024-25"

\* player_game_roster rows with expected_active = true
player_game_roster == Keys

\* main step 2: roster rows whose game lies in the window [start, end]
pregame_targets(start, end) ==
  {k \in player_game_roster : GameDate(k) >= start /\ GameDate(k) <= end}

\* main step 3: team_map.get(int(team_id), "")
team_map_get(team_id) ==
  IF team_id \in DOMAIN team_id_to_team THEN Upper(team_id_to_team[team_id]) ELSE ""

\* main step 3: int(row["home_team_id"]) / int(row["away_team_id"]) raises on
\* a missing id
resolve_raises(k) ==
  \/ v_nba_games_all[k[1]].home_team_id = NULL
  \/ v_nba_games_all[k[1]].away_team_id = NULL

\* compute_is_home
compute_is_home(k) ==
  LET gm == v_nba_games_all[k[1]]
      u  == Upper(team_abbr_of(k))
  IN IF resolve_raises(k) THEN "raise"
     ELSE IF u = team_map_get(gm.home_team_id) THEN "true"
     ELSE IF u = team_map_get(gm.away_team_id) THEN "false"
     ELSE "null"

\* compute_opp
compute_opp(k) ==
  LET gm == v_nba_games_all[k[1]]
      u  == Upper(team_abbr_of(k))
  IN IF resolve_raises(k) THEN "raise"
     ELSE IF u = team_map_get(gm.home_team_id) THEN gm.away_team_id
     ELSE IF u = team_map_get(gm.away_team_id) THEN gm.home_team_id
     ELSE NULL

\* a history query that also takes the rows dated on the first day of the
\* window
pregame_hist_through_start(lg, targets, start, lookback_days) ==
  {j \in Keys : /\ lg[j] # NoRow
                /\ \E tg \in targets : tg[2] = j[2]
                /\ GameDate(j) >= start - lookback_days
                /\ GameDate(j) <= start}

\* main step 4: truth logs of the players of the targets, dated in
\* [start - lookback_days, start)
pregame_hist(lg, targets, start, lookback_days) ==
  {j \in Keys : /\ lg[j] # NoRow
                /\ \E tg \in targets : tg[2] = j[2]
                /\ GameDate(j) >= start - lookback_days
                /\ GameDate(j) < start}

\* compute_rolling_features: prior = h[h["game_date"] < gdate], h the rows of
\* the target's player (hist arrives ordered by game_date, game_id)
pregame_prior(hist, k) ==
  SelectSeq(sort_values({j \in hist : j[2] = k[2]}, "asc"),
            LAMBDA j : GameDate(j) < GameDate(k))

\* compute_rolling_features: the aggregates and schedule fields of target k
compute_rolling_features(lg, hist, k) ==
  LET h     == sort_values({j \in hist : j[2] = k[2]}, "asc")
      prior == pregame_prior(hist, k)
      pts   == [j \in 1..Len(prior) |-> lg[prior[j]]]
      prev_date == GameDate(prior[Len(prior)])
      dr    == GameDate(k) - prev_date
      w34   == SelectSeq(prior, LAMBDA j : GameDate(j) >= GameDate(k) - 3)
      w46   == SelectSeq(prior, LAMBDA j : GameDate(j) >= GameDate(k) - 5)
  IN IF hist = {} \/ h = <<>>
     THEN [pts_l3 |-> NullMean, pts_l5 |-> NullMean, pts_l10 |-> NullMean,
           pts_season_avg |-> NullMean, days_rest |-> NULL,
           is_back_to_back |-> FALSE, is_3_in_4 |-> FALSE, is_4_in_6 |-> FALSE]
     ELSE [pts_l3 |-> last_n_avg(pts, 3), pts_l5 |-> last_n_avg(pts, 5),
           pts_l10 |-> last_n_avg(pts, 10), pts_season_avg |-> season_avg(pts),
           days_rest |-> IF prior = <<>> THEN NULL ELSE dr,
           is_back_to_back |-> IF prior = <<>> THEN FALSE ELSE dr = 1,
           is_3_in_4 |-> IF prior = <<>> THEN FALSE ELSE Len(w34) >= 3,
           is_4_in_6 |-> IF prior = <<>> THEN FALSE ELSE Len(w46) >= 4]

\* main steps 5-7: the record sent for target k by a run over [start, end]
pregame_record(lg, start, end, lookback_days, k, t) ==
  LET agg == compute_rolling_features(
               lg, pregame_hist(lg, pregame_targets(start, end), start, lookback_days), k)
  IN [game_id |-> k[1], player_id |-> k[2],
      season |-> season_from_game_date_str(GameDate(k)), game_date |-> GameDate(k),
      team_abbr |-> Upper(team_abbr_of(k)),
      opponent_team_id |-> compute_opp(k), is_home |-> compute_is_home(k),
      pts |-> NULL,
      pts_l3 |-> agg.pts_l3, pts_l5 |-> agg.pts_l5, pts_l10 |-> agg.pts_l10,
      pts_season_avg |-> agg.pts_season_avg,
      days_rest |-> agg.days_rest, is_back_to_back |-> agg.is_back_to_back,
      is_3_in_4 |-> agg.is_3_in_4, is_4_in_6 |-> agg.is_4_in_6,
      computed_at |-> t]

\* main: the run stops with an exception before anything is written
pregame_raises(start, end) == \E k \in pregame_targets(start, end) : resolve_raises(k)

\* main: the records of a run (none when the run returns early or raises)
pregame_rows(lg, start, end, lookback_days, t) ==
  IF pregame_raises(start, end) THEN {}
  ELSE {pregame_record(lg, start, end, lookback_days, k, t) : k \in pregame_targets(start, end)}

-----------------------------------------------------------------------------
(* Truth-snapshot aggregates: build_truth_training_snapshot.py *)

\* main: the aggregates of the base row k of a run for season `season`
truth_aggregates(lg, ord, season, k) ==
  LET hist  == sort_values({j \in Keys : lg[j] # NoRow /\ Season(j) = season /\ j[2] = k[2]}, ord)
      prior == SelectSeq(hist, LAMBDA j : GameDate(j) < GameDate(k))
      pts   == [j \in 1..Len(prior) |-> lg[prior[j]]]
  IN [pts_l3 |-> last_n_avg(pts, 3), pts_l5 |-> last_n_avg(pts, 5),
      pts_l10 |-> last_n_avg(pts, 10), pts_season_avg |-> season_avg(pts)]

-----------------------------------------------------------------------------
(* player_game_features and the upsert on (game_id, player_id) *)

FEATURE_COLS ==
  {"game_id", "player_id", "season", "game_date", "team_abbr",
   "opponent_team_id", "is_home", "pts",
   "pts_l3", "pts_l5", "pts_l10", "pts_season_avg",
   "days_rest", "is_back_to_back", "is_3_in_4", "is_4_in_6", "computed_at"}

KeyOf(r) == <<r.game_id, r.player_id>>

\* an upsert that keeps the stored row when the key exists (ignore-duplicates)
upsert_ignore_duplicates(store, batch) ==
  store \cup {b \in batch : \A r \in store : KeyOf(r) # KeyOf(b)}

\* a plain insert
insert_rows(store, batch) == store \cup batch

\* upsert(batch, on_conflict="game_id,player_id"): a stored row with the key
\* of a batch row takes the batch row's value in every column the batch row
\* carries; a batch row with a new key is inserted
upsert(store, batch) ==
  LET merged(b) ==
        [c \in FEATURE_COLS |->
           IF c \in DOMAIN b THEN b[c]
           ELSE IF \E r \in store : KeyOf(r) = KeyOf(b)
                THEN (CHOOSE r \in store : KeyOf(r) = KeyOf(b))[c]
                ELSE NULL]
  IN {r \in store : \A b \in batch : KeyOf(b) # KeyOf(r)} \cup {merged(b) : b \in batch}

\* the records sent under each key so far
record_writes(ws, batch) ==
  [k \in Keys |-> IF \E b \in batch : KeyOf(b) = k
                  THEN Append(ws[k], CHOOSE b \in batch : KeyOf(b) = k)
                  ELSE ws[k]]

-----------------------------------------------------------------------------
(* The columns each path sends *)

\* a column selection that leaves usg_pct out
backfill_columns_without_usg_pct ==
  <<"game_id", "player_id", "season", "game_date",
    "team_abbr", "opponent_team_id", "is_home",
    "minutes", "pts", "reb", "ast", "pra",
    "pts_l3", "pts_l5", "pts_l10",
    "reb_l3", "reb_l5", "reb_l10",
    "ast_l3", "ast_l5", "ast_l10",
    "pra_l3", "pra_l5", "pra_l10",
    "pts_season_avg", "reb_season_avg", "ast_season_avg", "pra_season_avg", "min_season_avg",
    "min_l3", "min_l5", "min_l10",
    "days_rest", "is_back_to_back", "is_3_in_4", "is_4_in_6",
    "computed_at">>

\* backfill_features.compute_features: out = df[[...]]
backfill_columns ==
  <<"game_id", "player_id", "season", "game_date",
    "team_abbr", "opponent_team_id", "is_home",
    "minutes", "pts", "reb", "ast", "pra",
    "pts_l3", "pts_l5", "pts_l10",
    "reb_l3", "reb_l5", "reb_l10",
    "ast_l3", "ast_l5", "ast_l10",
    "pra_l3", "pra_l5", "pra_l10",
    "pts_season_avg", "reb_season_avg", "ast_season_avg", "pra_season_avg", "min_season_avg",
    "min_l3", "min_l5", "min_l10",
    "usg_pct",
    "days_rest", "is_back_to_back", "is_3_in_4", "is_4_in_6",
    "computed_at">>

\* build_pregame_features.FEATURE_COLS, in full: payload_df[FEATURE_COLS]
pregame_columns ==
  <<"game_id", "player_id", "season", "game_date", "team_abbr",
    "opponent_team_id", "is_home", "minutes", "pts", "reb", "ast", "pra",
    "pts_l3", "pts_l5", "pts_l10", "reb_l3", "reb_l5", "reb_l10",
    "ast_l3", "ast_l5", "ast_l10", "pra_l3", "pra_l5", "pra_l10",
    "pts_season_avg", "reb_season_avg", "ast_season_avg", "pra_season_avg",
    "min_season_avg", "min_l3", "min_l5", "min_l10", "usg_pct",
    "days_rest", "is_back_to_back", "is_3_in_4", "is_4_in_6", "computed_at">>

\* the columns of the statistics that pts stands for, and usg_pct, which
\* both paths leave null
UntrackedCols ==
  {"minutes", "reb", "ast", "pra",
   "reb_l3", "reb_l5", "reb_l10", "ast_l3", "ast_l5", "ast_l10",
   "pra_l3", "pra_l5", "pra_l10", "min_l3", "min_l5", "min_l10",
   "reb_season_avg", "ast_season_avg", "pra_season_avg", "min_season_avg",
   "usg_pct"}

-----------------------------------------------------------------------------
(* Materializers: validation and integer coercion of a row before upsert *)

\* a cell of an integer column as it arrives: its Python type and, for the
\* numeric ones, its value in tenths ("78.0" is a str of 780 tenths)
NoneCell == [kind |-> "none", tenths |-> 0]
TextCell == [kind |-> "text", tenths |-> 0]
IntCells ==
  {NoneCell, TextCell,
   [kind |-> "int", tenths |-> 780],
   [kind |-> "float", tenths |-> 780], [kind |-> "float", tenths |-> 785],
   [kind |-> "str", tenths |-> 780], [kind |-> "str", tenths |-> 785]}

\* the result of a coercion: a value (NULL for <NA>), or an exception
Coerced(v) == [ok |-> TRUE, value |-> v]
Raised == [ok |-> FALSE, value |-> NULL]

\* pd.to_numeric(s, errors="coerce"), in tenths: None and text become NaN
to_numeric(c) == IF c.kind \in {"none", "text"} THEN NULL ELSE c.tenths

\* Series.round(0): half to even
round0(x) ==
  LET q == x \div 10
      r == x % 10
  IN IF r < 5 THEN q * 10
     ELSE IF r > 5 THEN (q + 1) * 10
     ELSE IF q % 2 = 0 THEN q * 10 ELSE (q + 1) * 10

\* build_pregame_features.coerce_int_series (force_python_ints then finds an
\* int or None and leaves it)
coerce_int_series(c) ==
  LET s2 == to_numeric(c)
  IN IF s2 # NULL /\ s2 % 10 # 0 THEN Raised
     ELSE IF s2 = NULL THEN Coerced(NULL)
     ELSE Coerced(round0(s2) \div 10)

\* backfill_features.compute_features: pd.to_numeric(errors="coerce")
\* .astype("Int64"), which refuses a float that is not integral
backfill_astype_Int64(c) ==
  LET x == to_numeric(c)
  IN IF x = NULL THEN Coerced(NULL)
     ELSE IF x % 10 # 0 THEN Raised
     ELSE Coerced(x \div 10)

\* build_truth_training_snapshot.main: pd.to_numeric(errors="coerce")
\* .round(0).astype("Int64")
truth_round_Int64(c) ==
  LET x == to_numeric(c)
  IN IF x = NULL THEN Coerced(NULL) ELSE Coerced(round0(x) \div 10)

\* the season column of a source row: a label, an empty text or null
NullSeason == "<null>"
SeasonCells == Seasons \cup {"", NullSeason}

Paths == {"backfill", "pregame", "truth"}

\* rows that reach a materializer
Payloads ==
  [path : Paths, season : SeasonCells, game_date : {-100, 1},
   opponent_team_id : {NULL, 20}, is_home : {"null", "true", "false"},
   days_rest : IntCells]

NoPayload == [path |-> "none"]
NothingSent == [status |-> "none"]
SendError == [status |-> "error"]

Stored(p, season, days_rest) ==
  [status |-> "stored", season |-> season,
   opponent_team_id |-> p.opponent_team_id, is_home |-> p.is_home,
   days_rest |-> days_rest]

\* backfill_features: compute_features casts, upsert_batches sends
backfill_send(p) ==
  IF ~backfill_astype_Int64(p.days_rest).ok THEN SendError
  ELSE Stored(p, p.season, backfill_astype_Int64(p.days_rest).value)

\* build_pregame_features.main steps 7-8: season from the game date, integer
\* coercion, the season guard, upsert
pregame_send(p) ==
  LET season == season_from_game_date_str(p.game_date)
  IN IF ~coerce_int_series(p.days_rest).ok THEN SendError
     ELSE IF season = "" \/ season = NullSeason THEN SendError
     ELSE Stored(p, season, coerce_int_series(p.days_rest).value)

\* build_truth_training_snapshot.main: a BOOL_COLS cell read from
\* player_game_features goes through map / fillna(0).astype(int), then
\* bool(row[b]): a null becomes 0 and then False
truth_bool(c) == IF c = "true" THEN "true" ELSE "false"

\* build_truth_training_snapshot.main: BOOL_COLS, INT_COLS rounding, upsert
truth_send(p) ==
  [Stored(p, p.season, truth_round_Int64(p.days_rest).value)
     EXCEPT !.is_home = truth_bool(p.is_home)]

-----------------------------------------------------------------------------
(* Prediction blender: generate_ml_predictions.py.  Statistics and lines   *)
(* are in hundredths, probabilities in ten-thousandths.                    *)

TARGETS == {"PTS", "REB", "AST", "PRA"}

\* blend = 0.35, in hundredths
blend == 35
\* floor = 0.85 * max(l10, season_avg), in hundredths
FloorFraction == 85
\* sigma fallbacks 6.0 and 2.5
SigmaFallbackPTS == 600
SigmaFallbackOther == 250

\* float('nan'), which is neither None nor a number
NaN == -3
\* ZeroDivisionError
ZeroDivision == -5

\* the resid_std entry of the requested statistic in the registry notes:
\* no entry, null, a float, a numeric string, another text, NaN
ResidCells ==
  {[kind |-> "absent", value |-> 0], [kind |-> "none", value |-> 0],
   [kind |-> "float", value |-> 400], [kind |-> "float", value |-> 0],
   [kind |-> "str", value |-> 400], [kind |-> "text", value |-> 0],
   [kind |-> "nan", value |-> 0]}

\* ml_model_registry.notes of the model version: the placeholder written by
\* ensure_model_registry_row, a text that is no JSON, or the list written
\* by train_ml_models
NotesValues ==
  {[kind |-> "placeholder", resid_std |-> [kind |-> "absent", value |-> 0]],
   [kind |-> "badjson", resid_std |-> [kind |-> "absent", value |-> 0]]}
  \cup {[kind |-> "list", resid_std |-> c] : c \in ResidCells}

\* main: float(r.get("resid_std") or 0) or None, None on an exception
resid_std_by_stat(notes) ==
  LET c == notes.resid_std
  IN IF notes.kind # "list" THEN NULL
     ELSE CASE c.kind \in {"absent", "none", "text"} -> NULL
            [] c.kind = "nan" -> NaN
            [] OTHER -> IF c.value = 0 THEN NULL ELSE c.value

\* a fallback of 6.0 for every statistic
sigma_fallback_pts_for_all(stat, notes) ==
  IF resid_std_by_stat(notes) # NULL THEN resid_std_by_stat(notes) ELSE SigmaFallbackPTS

\* main: resid_std_by_stat.get(stat) or (6.0 if stat == "PTS" else 2.5)
sigma_fallback(stat, notes) ==
  IF resid_std_by_stat(notes) # NULL THEN resid_std_by_stat(notes)
  ELSE IF stat = "PTS" THEN SigmaFallbackPTS ELSE SigmaFallbackOther

\* main: base = df[baseline_col].fillna(0); mu = (1 - blend) * mu + blend * base
\* (m and b in units, the result in hundredths)
blended_mean(m, b) == (100 - blend) * m + blend * (IF b = NULL THEN 0 ELSE b)

\* a maximum that is NaN as soon as one argument is (np.max)
nanmax_propagating(x, y) == IF x = NULL \/ y = NULL THEN NULL ELSE IF x >= y THEN x ELSE y

\* np.nanmax over the two columns: NaN only when both are
nanmax(x, y) ==
  IF x = NULL THEN y ELSE IF y = NULL THEN x ELSE IF x >= y THEN x ELSE y

\* main: floor = 0.85 * nanmax(l10, season_avg); mu[mask] = maximum(mu, floor)
\* where the floor is finite
floored_mean(mu, l10, savg) ==
  LET top == nanmax(l10, savg)
  IN IF top = NULL THEN mu
     ELSE IF mu >= FloorFraction * top THEN mu ELSE FloorFraction * top

\* scipy.stats.norm.cdf at z (in hundredths), from its values at the
\* multiples of 0.5, linear in between, 0 and 1 beyond -4 and 4
PhiTable == <<5000, 6915, 8413, 9332, 9772, 9938, 9987, 9998, 10000>>

PhiUpper(z) ==
  IF z >= 400 THEN 10000
  ELSE LET i == z \div 50
           lo == PhiTable[i + 1]
           hi == PhiTable[i + 2]
       IN lo + ((hi - lo) * (z % 50)) \div 50

norm_cdf(z) == IF z >= 0 THEN PhiUpper(z) ELSE 10000 - PhiUpper(-z)

\* a probability of finishing under the line
prob_under(line, model_mean, model_std) ==
  IF line = NULL \/ model_mean = NULL \/ model_std = NULL \/ model_std = NaN THEN NULL
  ELSE IF model_std = 0 THEN ZeroDivision
  ELSE norm_cdf(((line - model_mean) * 100) \div model_std)

\* main.prob_over: None when line, model_mean or model_std is NaN / None
prob_over(line, model_mean, model_std) ==
  IF line = NULL \/ model_mean = NULL \/ model_std = NULL \/ model_std = NaN THEN NULL
  ELSE IF model_std = 0 THEN ZeroDivision
  ELSE 10000 - norm_cdf(((line - model_mean) * 100) \div model_std)

\* rows scored: the statistic, the model's estimate m, the baseline b, the
\* trailing-10 and season means (units, NULL when missing), the closing
\* line (hundredths), the registry notes
ScoreRows ==
  [stat : TARGETS, m : {18, 40}, b : {NULL, 18, 40},
   l10 : {NULL, 30}, season_avg : {NULL, 20},
   line : {NULL, 2550, 4000}, notes : NotesValues]

NoSlate == [stat |-> "none"]
NoPrediction == [stat_type |-> "none"]

\* main: the ml_predictions record of one row and statistic (mu_blended is
\* mu between the blend and the floor)
score(r) ==
  LET mu    == blended_mean(r.m, r.b)
      final == floored_mean(mu, r.l10, r.season_avg)
      sigma == sigma_fallback(r.stat, r.notes)
  IN [stat_type |-> r.stat, mu_blended |-> mu, model_mean |-> final,
      model_std |-> sigma, line |-> r.line,
      model_prob_over |-> prob_over(r.line, final, sigma)]

-----------------------------------------------------------------------------
(* Operations *)

NumLogs(lg) == Cardinality({k \in Keys : lg[k] # NoRow})

\* --start / --end values the feature computations are examined for
RunDates == Dates \cup {NoDate}
\* --start / --end values the backfill runs are started with
BackfillStarts == {NoDate, 2}
BackfillEnds == {4}
\* --start / --end values the pregame runs are started with
PregameStarts == {1, 4}
PregameEnds == {2, 4}

\* default of --lookback-days
DefaultLookbackDays == 240
\* --lookback-days values tried
LookbackDays == {2, DefaultLookbackDays}

\* official-working-version.py upsert_rows: a box-score row is inserted, or
\* corrected under its key
IngestLog(k, v) ==
  /\ logs[k] # v
  /\ NumLogs([logs EXCEPT ![k] = v]) <= MaxLogs
  /\ logs' = [logs EXCEPT ![k] = v]
  /\ UNCHANGED <<features, writes, now, rowOrder>>
  /\ UNCHANGED <<sendVars, predVars, runVars>>

\* backfill_features.main
BackfillRun(start, end, chunk_days, dry_run) ==
  /\ NumLogs(logs) + now < MaxPipelineSize
  /\ LET rows == backfill_rows(logs, rowOrder, start, end, chunk_days, now)
     IN IF dry_run \/ rows = {}
        THEN UNCHANGED <<features, writes, now>>
        ELSE /\ features' = upsert(features, rows)
             /\ writes' = record_writes(writes, rows)
             /\ now' = now + 1
  /\ UNCHANGED <<logs, rowOrder>>
  /\ UNCHANGED <<sendVars, predVars, runVars>>

\* build_pregame_features.main
PregameRun(start, end, lookback_days, dry_run) ==
  /\ NumLogs(logs) + now < MaxPipelineSize
  /\ start <= end
  /\ LET rows == pregame_rows(logs, start, end, lookback_days, now)
     IN IF dry_run \/ rows = {}
        THEN UNCHANGED <<features, writes, now>>
        ELSE /\ features' = upsert(features, rows)
             /\ writes' = record_writes(writes, rows)
             /\ now' = now + 1
  /\ UNCHANGED <<logs, rowOrder>>
  /\ UNCHANGED <<sendVars, predVars, runVars>>

\* nothing called, fetched or run yet
NoCall == [fn |-> "none"]
NoPager == [pc |-> "none"]
NoSync == [pc |-> "none"]
NoRun == [script |-> "none"]

Init ==
  /\ logs = [k \in Keys |-> NoRow]
  /\ features = {}
  /\ writes = [k \in Keys |-> <<>>]
  /\ now = 0
  /\ rowOrder \in {"asc", "desc"}
  /\ payload = NoPayload
  /\ sent = NothingSent
  /\ slate = NoSlate
  /\ prediction = NoPrediction
  /\ call = NoCall
  /\ pager = NoPager
  /\ sync = NoSync
  /\ run = NoRun

Ingest == \E k \in Keys, v \in PtsValues \cup {NULL} : IngestLog(k, v)

Backfill ==
  \E start \in BackfillStarts, end \in BackfillEnds, chunk_days \in 1..MaxChunkDays, dry_run \in BOOLEAN :
    BackfillRun(start, end, chunk_days, dry_run)

Pregame ==
  \E start \in PregameStarts, end \in PregameEnds, lookback_days \in LookbackDays, dry_run \in BOOLEAN :
    PregameRun(start, end, lookback_days, dry_run)

\* the whole pipeline, over histories of bounded size
Next ==
  \/ Ingest /\ NumLogs(logs') + now <= MaxPipelineSize
  \/ Backfill
  \/ Pregame

Spec == Init /\ [][Next]_vars

\* the raw store alone, as the feature computations see it
NextLogs == Ingest

SpecLogs == Init /\ [][NextLogs]_vars

\* a row arrives at a materializer
Prepare(p) ==
  /\ payload = NoPayload
  /\ payload' = p
  /\ sent' = NothingSent
  /\ UNCHANGED <<pipeVars, predVars, runVars>>

BackfillSend ==
  /\ payload # NoPayload /\ payload.path = "backfill" /\ sent = NothingSent
  /\ sent' = backfill_send(payload)
  /\ UNCHANGED <<payload, logs, features, writes, now, rowOrder, predVars, runVars>>

PregameSend ==
  /\ payload # NoPayload /\ payload.path = "pregame" /\ sent = NothingSent
  /\ sent' = pregame_send(payload)
  /\ UNCHANGED <<payload, logs, features, writes, now, rowOrder, predVars, runVars>>

TruthSend ==
  /\ payload # NoPayload /\ payload.path = "truth" /\ sent = NothingSent
  /\ sent' = truth_send(payload)
  /\ UNCHANGED <<payload, logs, features, writes, now, rowOrder, predVars, runVars>>

NextSend ==
  \/ \E p \in Payloads : Prepare(p)
  \/ BackfillSend
  \/ PregameSend
  \/ TruthSend

\* the materializers alone, over rows drawn from Payloads
SpecSend == Init /\ [][NextSend]_vars

\* generate_ml_predictions.main reads a feature row, its line and the notes
Fetch(r) ==
  /\ slate = NoSlate
  /\ slate' = r
  /\ prediction' = NoPrediction
  /\ UNCHANGED <<pipeVars, sendVars, runVars>>

\* generate_ml_predictions.main computes the prediction of the row
Score ==
  /\ slate \in ScoreRows /\ prediction = NoPrediction
  /\ prediction' = score(slate)
  /\ UNCHANGED <<slate, pipeVars, sendVars, runVars>>

NextPredict ==
  \/ \E r \in ScoreRows : Fetch(r)
  \/ Score

\* the prediction blender alone, over rows drawn from ScoreRows
SpecPredict == Init /\ [][NextPredict]_vars

-----------------------------------------------------------------------------
(* Baseline projections: baseline_projections.run.  Aggregates are in tenths,
   means are exact fractions of tenths, dispersions are in thousandths *)

ProjStats == {"pts", "reb", "ast", "pra"}

\* the (l5, l10, season_avg) cells of one statistic in a feature row
PtsAggregates == {<<NULL, NULL, NULL>>, <<200, 180, NULL>>, <<220, 200, 190>>}
RebAggregates == {<<NULL, NULL, NULL>>, <<50, 60, 40>>}
AstAggregates == {<<NULL, NULL, NULL>>, <<NULL, NULL, 30>>, <<40, 50, 45>>}
PraAggregates == {<<NULL, NULL, NULL>>, <<300, NULL, NULL>>, <<310, 300, 290>>}

\* fetch_features: the feature rows read, after pd.to_numeric
ProjRows ==
  {[min_l5 |-> m5, min_season_avg |-> ms,
    pts_l5 |-> p[1], pts_l10 |-> p[2], pts_season_avg |-> p[3],
    reb_l5 |-> b[1], reb_l10 |-> b[2], reb_season_avg |-> b[3],
    ast_l5 |-> a[1], ast_l10 |-> a[2], ast_season_avg |-> a[3],
    pra_l5 |-> c[1], pra_l10 |-> c[2], pra_season_avg |-> c[3]] :
     m5 \in {NULL, 300}, ms \in {NULL, 0, 200},
     p \in PtsAggregates, b \in RebAggregates,
     a \in AstAggregates, c \in PraAggregates}

\* r.get(f"{stat}_l5"), r.get(f"{stat}_l10"), r.get(f"{stat}_season_avg")
StatAggregates(r, stat) ==
  CASE stat = "pts" -> <<r.pts_l5, r.pts_l10, r.pts_season_avg>>
    [] stat = "reb" -> <<r.reb_l5, r.reb_l10, r.reb_season_avg>>
    [] stat = "ast" -> <<r.ast_l5, r.ast_l10, r.ast_season_avg>>
    [] stat = "pra" -> <<r.pra_l5, r.pra_l10, r.pra_season_avg>>

\* float product and sum of two means, kept exact
Times(f, g) == Frac(f[1] * g[1], f[2] * g[2])
Plus(f, g) == Frac(f[1] * g[2] + g[1] * f[2], f[2] * g[2])

\* baseline_mean: weights 0.5 / 0.3 / 0.2 over the values present,
\* renormalised; None when no value is present
baseline_mean(l5, l10, savg) ==
  LET wsum == (IF l5 # NULL THEN 5 ELSE 0) + (IF l10 # NULL THEN 3 ELSE 0)
              + (IF savg # NULL THEN 2 ELSE 0)
      vsum == (IF l5 # NULL THEN 5 * l5 ELSE 0) + (IF l10 # NULL THEN 3 * l10 ELSE 0)
              + (IF savg # NULL THEN 2 * savg ELSE 0)
  IN IF wsum = 0 THEN NullMean ELSE Frac(vsum, wsum)

\* baseline_std: max(1.0, abs(l10 - season_avg)), else 5.0 for pts and 2.5
baseline_std(r, stat) ==
  LET l10  == StatAggregates(r, stat)[2]
      savg == StatAggregates(r, stat)[3]
      d    == IF l10 >= savg THEN l10 - savg ELSE savg - l10
  IN IF l10 # NULL /\ savg # NULL
     THEN (IF d * 100 > 1000 THEN d * 100 ELSE 1000)
     ELSE IF stat = "pts" THEN 5000 ELSE 2500

\* run: projected minutes over season minutes, 1.0 when either is missing
\* or the season minutes are not positive
min_multiplier(r) ==
  LET proj_min   == IF r.min_l5 # NULL THEN r.min_l5 ELSE r.min_season_avg
      season_min == r.min_season_avg
  IN IF proj_min # NULL /\ season_min # NULL /\ season_min > 0
     THEN Frac(proj_min, season_min)
     ELSE <<1, 1>>

\* run: pts_mu, reb_mu, ast_mu: the baseline mean times the multiplier
base_mu(r, stat) ==
  LET a  == StatAggregates(r, stat)
      mu == baseline_mean(a[1], a[2], a[3])
  IN IF mu = NullMean THEN NullMean ELSE Times(mu, min_multiplier(r))

\* math.sqrt, to the thousandth below
math_sqrt(x, upper) == CHOOSE k \in 0..upper : k * k <= x /\ (k + 1) * (k + 1) > x

\* PRA always taken from its own aggregates
pra_from_own_aggregates(r) ==
  [projected_mean |-> baseline_mean(r.pra_l5, r.pra_l10, r.pra_season_avg),
   projected_std  |-> baseline_std(r, "pra")]

\* run: pra_mu and pra_sd
pra_projection(r) ==
  LET pts_sd == baseline_std(r, "pts")
      reb_sd == baseline_std(r, "reb")
      ast_sd == baseline_std(r, "ast")
  IN IF base_mu(r, "pts") # NullMean /\ base_mu(r, "reb") # NullMean
        /\ base_mu(r, "ast") # NullMean
     THEN [projected_mean |-> Plus(Plus(base_mu(r, "pts"), base_mu(r, "reb")),
                                   base_mu(r, "ast")),
           projected_std  |-> math_sqrt(pts_sd * pts_sd + reb_sd * reb_sd
                                        + ast_sd * ast_sd,
                                        pts_sd + reb_sd + ast_sd)]
     ELSE [projected_mean |-> baseline_mean(r.pra_l5, r.pra_l10, r.pra_season_avg),
           projected_std  |-> baseline_std(r, "pra")]

\* run: the four player_stat_projections rows of one feature row
projections(r) ==
  [stat \in ProjStats |->
     IF stat = "pra" THEN pra_projection(r)
     ELSE [projected_mean |-> base_mu(r, stat),
           projected_std  |-> baseline_std(r, stat)]]

\* baseline_projections.run reads a feature row
FetchFeatures(r) ==
  /\ slate = NoSlate
  /\ slate' = r
  /\ prediction' = NoPrediction
  /\ UNCHANGED <<pipeVars, sendVars, runVars>>

\* baseline_projections.run computes the projections of the row
Project ==
  /\ slate \in ProjRows /\ prediction = NoPrediction
  /\ prediction' = projections(slate)
  /\ UNCHANGED <<slate, pipeVars, sendVars, runVars>>

NextProject ==
  \/ \E r \in ProjRows : FetchFeatures(r)
  \/ Project

\* the baseline projections alone, over rows drawn from ProjRows
SpecProject == Init /\ [][NextProject]_vars

-----------------------------------------------------------------------------
(* Helper calls examined on their own *)

\* --start / --end of a backfill run (parse_date_opt: None when not given)
ChunkDates == 0..5 \cup {NoDate}
\* --chunk-days
ChunkDays == 1..(MaxChunkDays + 1)

\* backfill_features.main iterates daterange_chunks(start, end, chunk_days)
CallChunks(start, end, chunk_days) ==
  /\ call' = [fn |-> "daterange_chunks", start |-> start, end |-> end,
              chunk_days |-> chunk_days,
              result |-> daterange_chunks(start, end, chunk_days)]
  /\ UNCHANGED <<pipeVars, sendVars, predVars, pager, sync, run>>

NextChunks ==
  \E start \in ChunkDates, end \in ChunkDates, chunk_days \in ChunkDays :
    CallChunks(start, end, chunk_days)

\* daterange_chunks alone, over the windows of ChunkDates
SpecChunks == Init /\ [][NextChunks]_vars

-----------------------------------------------------------------------------
(* Paged reads: fetch_all (backfill_features, build_pregame_features,
   generate_ml_predictions).  The store holds rows 1..rows of the query, in
   the order in which it returns them *)

\* rows matching a query, page sizes tried
MaxStoreRows == 8
MaxPageSize == 4

\* q.range(first, last).execute(): the rows at positions first..last, counted
\* from 0, as far as they exist
store_range(rows, first, last) ==
  LET upto == IF last + 1 < rows THEN last + 1 ELSE rows
  IN [i \in 1..(IF upto > first THEN upto - first ELSE 0) |-> first + i]

\* an offset advanced by one row less than a page
next_offset_overlapping(offset, page_size) == offset + page_size - 1

\* fetch_all: offset += page_size
next_offset(offset, page_size) == offset + page_size

\* fetch_all is called: out = [], offset = 0
FetchAllCall(rows, page_size) ==
  /\ pager.pc # "loop"
  /\ pager' = [pc |-> "loop", rows |-> rows, page_size |-> page_size,
               offset |-> 0, out |-> <<>>, requests |-> 0]
  /\ UNCHANGED <<pipeVars, sendVars, predVars, call, sync, run>>

\* fetch_all: one turn of the while loop
FetchAllPage ==
  /\ pager.pc = "loop"
  /\ LET data == store_range(pager.rows, pager.offset,
                             pager.offset + pager.page_size - 1)
     IN pager' = [pager EXCEPT
                    !.out = pager.out \o data,
                    !.requests = pager.requests + 1,
                    !.pc = IF Len(data) < pager.page_size THEN "returned" ELSE "loop",
                    !.offset = IF Len(data) < pager.page_size THEN pager.offset
                               ELSE next_offset(pager.offset, pager.page_size)]
  /\ UNCHANGED <<pipeVars, sendVars, predVars, call, sync, run>>

NextPaged ==
  \/ \E rows \in 0..MaxStoreRows, page_size \in 1..MaxPageSize :
       FetchAllCall(rows, page_size)
  \/ FetchAllPage

\* fetch_all alone, against stores of up to MaxStoreRows rows
SpecPaged == Init /\ [][NextPaged]_vars

-----------------------------------------------------------------------------
(* Connection credentials: supa() of every script.  A credential is absent,
   set to the empty string, or set, in the shell and in .env.local *)

CredStates == {"absent", "empty", "set"}

Scripts ==
  {"backfill_features", "baseline_projections", "build_pregame_features",
   "build_truth_training_snapshot", "generate_ml_predictions",
   "train_ml_models", "official-working-version"}

\* scripts whose main calls load_dotenv(".env.local") before supa()
LoadsDotenv ==
  {"backfill_features", "baseline_projections", "build_truth_training_snapshot",
   "generate_ml_predictions", "train_ml_models"}

\* load_dotenv (override=False): a variable of the file is set only when the
\* shell did not set it
load_dotenv(shell, file) == IF shell = "absent" THEN file ELSE shell

\* os.environ of the process when supa() is called
environ(script, shell, file) ==
  IF script \in LoadsDotenv THEN load_dotenv(shell, file) ELSE shell

\* the value supa() hands to create_client for one credential: "env" from
\* the environment, "builtin" the literal of the source, "missing" when
\* empty or None
credential(script, shell, file) ==
  CASE script \in {"backfill_features", "baseline_projections"} ->
         \* os.getenv(NAME, "") at import, os.getenv(NAME, <that>) in main
         IF environ(script, shell, file) = "set" THEN "env" ELSE "missing"
    [] script = "build_truth_training_snapshot" ->
         \* os.getenv(NAME)
         IF environ(script, shell, file) = "set" THEN "env" ELSE "missing"
    [] script \in {"build_pregame_features", "official-working-version"} ->
         \* os.getenv(NAME, <literal>) at import
         CASE environ(script, shell, file) = "set" -> "env"
           [] environ(script, shell, file) = "empty" -> "missing"
           [] OTHER -> "builtin"
    [] OTHER ->
         \* _supa.supa: os.getenv(NAME) or DEFAULT
         IF environ(script, shell, file) = "set" THEN "env" ELSE "builtin"

\* supa(): RuntimeError when a credential is empty, else create_client
supa(script, shell_url, file_url, shell_key, file_key) ==
  LET url == credential(script, shell_url, file_url)
      key == credential(script, shell_key, file_key)
  IN IF url = "missing" \/ key = "missing"
     THEN [outcome |-> "RuntimeError", url |-> url, key |-> key]
     ELSE [outcome |-> "client", url |-> url, key |-> key]

\* a script is started and creates its store client
CallSupa(script, shell_url, file_url, shell_key, file_key) ==
  /\ call' = [fn |-> "supa", script |-> script,
              shell |-> <<shell_url, shell_key>>, dotenv |-> <<file_url, file_key>>,
              SUPABASE_URL |-> environ(script, shell_url, file_url),
              SUPABASE_SERVICE_ROLE |-> environ(script, shell_key, file_key),
              result |-> supa(script, shell_url, file_url, shell_key, file_key)]
  /\ UNCHANGED <<pipeVars, sendVars, predVars, pager, sync, run>>

NextConfig ==
  \E script \in Scripts, shell_url \in CredStates, file_url \in CredStates,
     shell_key \in CredStates, file_key \in CredStates :
    CallSupa(script, shell_url, file_url, shell_key, file_key)

\* the store clients alone, over every state of the two credentials
SpecConfig == Init /\ [][NextConfig]_vars

-----------------------------------------------------------------------------
(* Box-score sync: official-working-version.py.  The destination table is
   the raw store; a fetched box score carries one row per key of the game *)

DEFAULT_SEASON == "2025-26"
\* backoff unit of the retries, in seconds
RETRY_BASE_DELAY == 1
\* fetch_boxscore_frames: for attempt in range(1, 6)
MaxAttempts == 5
\* runs started one after the other
MaxSyncRuns == 2

\* --date-from / --date-to, --recent-days and the day of the run
SyncWindows == {<<1, 3>>, <<3, 4>>, <<5, 5>>}
RecentDays == {0, 1}
SyncToday == 4

\* what one attempt of BoxScoreTraditionalV3 can do: frames with a player
\* frame, frames without one, a caught exception (JSONDecodeError, ValueError,
\* HTTPError, ReadTimeout, ConnectTimeout), any other exception
AttemptOutcomes == {"frames", "empty", "transient", "raised"}

\* the pts every row of a fetched box score carries
BoxPts == 10

\* fetch_games: the games of the season played in [date_from, date_to]
fetch_games(date_from, date_to) ==
  {g \in Games : /\ v_nba_games_all[g].season = DEFAULT_SEASON
                 /\ v_nba_games_all[g].game_date >= date_from
                 /\ v_nba_games_all[g].game_date <= date_to}

\* supabase_distinct_game_ids: the games with a row in the table
supabase_distinct_game_ids(lg, game_ids) ==
  {g \in game_ids : \E k \in Keys : k[1] = g /\ lg[k] # NoRow}

\* no game counts as recent
recent_set_empty(games, today, recent_days) == {}

\* main: games dated on or after today - recent_days
recent_set(games, today, recent_days) ==
  {g \in games : v_nba_games_all[g].game_date >= today - recent_days}

\* sorted(S) as a tuple
RECURSIVE sorted(_)
sorted(S) ==
  IF S = {} THEN <<>>
  ELSE LET m == CHOOSE x \in S : \A y \in S : x <= y
       IN <<m>> \o sorted(S \ {m})

\* main: target_ids = sorted(missing_set | recent_set)
target_ids(lg, games, today, recent_days) ==
  sorted((games \ supabase_distinct_game_ids(lg, games))
         \cup recent_set(games, today, recent_days))

\* the same delay after every failure
retry_delay_constant(attempt) == RETRY_BASE_DELAY

\* fetch_boxscore_frames: time.sleep(RETRY_BASE_DELAY * attempt)
retry_delay(attempt) == RETRY_BASE_DELAY * attempt

\* a failed game empties the buffer
extend_or_reset(to_upsert, gid, returned) ==
  IF returned = "frames" THEN to_upsert \cup {k \in Keys : k[1] = gid} ELSE {}

\* main: to_upsert.extend(recs) when the game gave rows, nothing otherwise
extend(to_upsert, gid, returned) ==
  IF returned = "frames" THEN to_upsert \cup {k \in Keys : k[1] = gid} ELSE to_upsert

\* upsert_rows: every buffered row is inserted or replaces the row of its key
upsert_rows(lg, to_upsert) ==
  [k \in Keys |-> IF k \in to_upsert THEN BoxPts ELSE lg[k]]

\* main up to the loop: the games are enumerated and the targets planned; a
\* dry run, an empty window and an empty plan end the run here
SyncStart(date_from, date_to, recent_days, dry_run) ==
  /\ sync.pc \in {"none", "done"}
  /\ (IF sync.pc = "none" THEN 0 ELSE sync.runs) < MaxSyncRuns
  /\ LET games == fetch_games(date_from, date_to)
         ids   == target_ids(logs, games, SyncToday, recent_days)
     IN sync' = [pc |-> IF games = {} \/ dry_run \/ ids = <<>> THEN "done" ELSE "fetch",
                 runs |-> IF sync.pc = "none" THEN 1 ELSE sync.runs + 1,
                 dry_run |-> dry_run, recent_days |-> recent_days,
                 games |-> games, before |-> logs,
                 target_ids |-> IF games = {} THEN <<>> ELSE ids,
                 i |-> 1, returned |-> "none", tries |-> <<>>, delays |-> <<>>,
                 calls |-> [g \in Games |-> 0],
                 result |-> [g \in Games |-> "none"],
                 to_upsert |-> {}]
  /\ UNCHANGED <<pipeVars, sendVars, predVars, call, pager, run>>

\* one attempt of fetch_boxscore_frames for target_ids[i]; when the call
\* ends, the rest of the loop body of main for that game
SyncAttempt(outcome) ==
  /\ sync.pc = "fetch"
  /\ LET fresh    == sync.returned # "calling"
         gid      == sync.target_ids[sync.i]
         tries0   == IF fresh THEN <<>> ELSE sync.tries
         delays0  == IF fresh THEN <<>> ELSE sync.delays
         attempt  == Len(tries0) + 1
         ended    == outcome # "transient" \/ attempt = MaxAttempts
         returned == IF ~ended THEN "calling"
                     ELSE IF outcome = "transient" THEN "exhausted" ELSE outcome
     IN sync' = [sync EXCEPT
                   !.tries = Append(tries0, outcome),
                   !.delays = IF outcome = "transient"
                              THEN Append(delays0, retry_delay(attempt)) ELSE delays0,
                   !.calls = IF fresh THEN [sync.calls EXCEPT ![gid] = @ + 1]
                             ELSE sync.calls,
                   !.returned = returned,
                   !.result = IF ended THEN [sync.result EXCEPT ![gid] = returned]
                              ELSE sync.result,
                   !.to_upsert = IF ended THEN extend(sync.to_upsert, gid, returned)
                                 ELSE sync.to_upsert,
                   !.i = IF ended THEN sync.i + 1 ELSE sync.i,
                   !.pc = IF ended /\ sync.i = Len(sync.target_ids)
                          THEN "write" ELSE "fetch"]
  /\ UNCHANGED <<pipeVars, sendVars, predVars, call, pager, run>>

\* main after the loop: "Nothing to write" or upsert_rows(to_upsert)
SyncWrite ==
  /\ sync.pc = "write"
  /\ sync' = [sync EXCEPT !.pc = "done"]
  /\ logs' = IF sync.to_upsert = {} THEN logs ELSE upsert_rows(logs, sync.to_upsert)
  /\ UNCHANGED <<features, writes, now, rowOrder, sendVars, predVars, call, pager, run>>

NextSync ==
  \/ \E w \in SyncWindows, recent_days \in RecentDays, dry_run \in BOOLEAN :
       SyncStart(w[1], w[2], recent_days, dry_run)
  \/ \E outcome \in AttemptOutcomes : SyncAttempt(outcome)
  \/ SyncWrite

\* the box-score sync alone, for MaxSyncRuns runs
SpecSync == Init /\ [][NextSync]_vars

\* the same, with a started attempt always finishing: the attempt is a
\* blocking call with a timeout, the sleep after it is finite
SpecSyncLive == SpecSync /\ WF_vars(\E outcome \in AttemptOutcomes : SyncAttempt(outcome))

-----------------------------------------------------------------------------
(* Feature runs with their flags: backfill_features.main and
   build_pregame_features.main, with --dry-run and with the team directory
   they find; official-working-version.main with --dry-run *)

\* team_id_to_team as a run finds it: the rows above, or no row
TeamDirectories == {"full", "empty"}

\* every run upserts what it computed
sent_rows_always(rows, dry_run) == rows

\* main: nothing is upserted under --dry-run
sent_rows(rows, dry_run) == IF dry_run THEN {} ELSE rows

\* build_pregame_features.main steps 3-7 when team_id_to_team is empty:
\* team_map is {} and team_map.get(..., "") is "" for both sides
pregame_rows_without_teams(lg, start, end, lookback_days, t) ==
  IF pregame_raises(start, end) THEN {}
  ELSE {[pregame_record(lg, start, end, lookback_days, k, t) EXCEPT
           !.is_home = IF Upper(team_abbr_of(k)) = "" THEN "true" ELSE "null",
           !.opponent_team_id = IF Upper(team_abbr_of(k)) = ""
                                THEN v_nba_games_all[k[1]].away_team_id ELSE NULL] :
          k \in pregame_targets(start, end)}

\* backfill_features.main
BackfillMain(start, end, chunk_days, dry_run, teams) ==
  /\ NumLogs(logs) + now < MaxPipelineSize
  /\ LET rows == IF teams = "empty" THEN {}
                 ELSE backfill_rows(logs, rowOrder, start, end, chunk_days, now)
         out  == sent_rows(rows, dry_run)
     IN /\ run' = [script |-> "backfill_features", dry_run |-> dry_run,
                   teams |-> teams, start |-> start, end |-> end, arg |-> chunk_days,
                   outcome |-> IF teams = "empty" THEN "RuntimeError" ELSE "ok",
                   computed |-> rows, sent |-> out, before |-> features]
        /\ IF out = {}
           THEN UNCHANGED <<features, writes, now>>
           ELSE /\ features' = upsert(features, out)
                /\ writes' = record_writes(writes, out)
                /\ now' = now + 1
  /\ UNCHANGED <<logs, rowOrder, sendVars, predVars, call, pager, sync>>

\* build_pregame_features.main
PregameMain(start, end, lookback_days, dry_run, teams) ==
  /\ NumLogs(logs) + now < MaxPipelineSize
  /\ start <= end
  /\ LET rows == IF teams = "empty"
                 THEN pregame_rows_without_teams(logs, start, end, lookback_days, now)
                 ELSE pregame_rows(logs, start, end, lookback_days, now)
         out  == sent_rows(rows, dry_run)
     IN /\ run' = [script |-> "build_pregame_features", dry_run |-> dry_run,
                   teams |-> teams, start |-> start, end |-> end, arg |-> lookback_days,
                   outcome |-> IF pregame_targets(start, end) = {} THEN "returned"
                               ELSE IF pregame_raises(start, end) THEN "raised"
                               ELSE "ok",
                   computed |-> rows, sent |-> out, before |-> features]
        /\ IF out = {}
           THEN UNCHANGED <<features, writes, now>>
           ELSE /\ features' = upsert(features, out)
                /\ writes' = record_writes(writes, out)
                /\ now' = now + 1
  /\ UNCHANGED <<logs, rowOrder, sendVars, predVars, call, pager, sync>>

\* (start, end, chunk_days) and (start, end, lookback_days) of the runs
\* examined with their flags
BackfillMainArgs == {<<NoDate, 4, 2>>}
PregameMainArgs == {<<1, 2, DefaultLookbackDays>>, <<1, 4, 2>>}

\* rows the raw log store holds when the runs with flags start
MaxRunLogs == 1

\* a history holds the box scores ingested first, then feature runs or dry
\* runs of the sync, which touch different tables
NextRuns ==
  \/ Ingest /\ NumLogs(logs') <= MaxRunLogs /\ run = NoRun /\ sync = NoSync
  \/ \E a \in BackfillMainArgs, dry_run \in BOOLEAN, teams \in TeamDirectories :
       BackfillMain(a[1], a[2], a[3], dry_run, teams) /\ sync = NoSync
  \/ \E a \in PregameMainArgs, dry_run \in BOOLEAN, teams \in TeamDirectories :
       PregameMain(a[1], a[2], a[3], dry_run, teams) /\ sync = NoSync
  \/ \E w \in SyncWindows, recent_days \in RecentDays :
       SyncStart(w[1], w[2], recent_days, TRUE) /\ run = NoRun

\* the runs with their flags, over histories of bounded size
SpecRuns == Init /\ [][NextRuns]_vars

-----------------------------------------------------------------------------
(* Reference definitions of the aggregates, by index sets *)

NonNullIdx(h) == {i \in 1..Len(h) : h[i] # NULL}

\* the n largest indices of I
LastIdx(I, n) == {i \in I : Cardinality({j \in I : j > i}) < n}

RECURSIVE SumIdx(_, _)
SumIdx(h, I) ==
  IF I = {} THEN 0
  ELSE LET i == CHOOSE x \in I : TRUE IN h[i] + SumIdx(h, I \ {i})

MeanIdx(h, I) == Frac(SumIdx(h, I), Cardinality(I))

\* mean of the last n non-null values of h, of all when fewer exist
RefTrailingMean(h, n) == MeanIdx(h, LastIdx(NonNullIdx(h), n))

\* mean of all non-null values of h
RefCumulativeMean(h) == MeanIdx(h, NonNullIdx(h))

Windows == {3, 5, 10}

\* the log rows of the store
LogRows == {k \in Keys : logs[k] # NoRow}

\* backfill over the whole store: the group of row k, its pts column, the
\* position of k, and the rows before k
FullGroup(k) == backfill_group(logs, rowOrder, NoDate, NoDate, k)
FullPts(k) == [j \in 1..Len(FullGroup(k)) |-> logs[FullGroup(k)[j]]]
FullPos(k) == IndexOf(FullGroup(k), k)
FullHistory(k) == SubSeq(FullPts(k), 1, FullPos(k) - 1)

\* pregame for the target k alone, with the default lookback: the pts column
\* of its prior rows
TargetHist(k) == pregame_hist(logs, {k}, GameDate(k), DefaultLookbackDays)
TargetPts(k) ==
  [j \in 1..Len(pregame_prior(TargetHist(k), k)) |-> logs[pregame_prior(TargetHist(k), k)[j]]]

-----------------------------------------------------------------------------
(* C1 *)

Aggregates(r) == <<r.pts_l3, r.pts_l5, r.pts_l10, r.pts_season_avg>>

\* the aggregates each path computes for the row of key k over the store lg
BackfillAggregates(lg, k) ==
  Aggregates(compute_features(lg, rowOrder, NoDate, NoDate, k, 0))
PregameAggregates(lg, k) ==
  Aggregates(compute_rolling_features(
               lg, pregame_hist(lg, {k}, GameDate(k), DefaultLookbackDays), k))
TruthAggregates(lg, k) ==
  Aggregates(truth_aggregates(lg, rowOrder, Season(k), k))

\* C1: no leakage.  A step that inserts or changes only observations dated
\* D or later (a second observation dated exactly D included) leaves the
\* trailing and season-to-date means of every row at date D unchanged, in the
\* backfill path, the pregame path and the truth-snapshot path.
C1_NoLeakage ==
  [][\A k \in Keys :
       (\A j \in Keys : logs'[j] # logs[j] => GameDate(j) >= GameDate(k))
       => /\ (logs[k] # NoRow /\ logs'[k] # NoRow)
               => BackfillAggregates(logs', k) = BackfillAggregates(logs, k)
          /\ PregameAggregates(logs', k) = PregameAggregates(logs, k)
          /\ TruthAggregates(logs', k) = TruthAggregates(logs, k)]_vars

-----------------------------------------------------------------------------
(* C2 *)

\* C2: the trailing mean for window n in {3, 5, 10} is the mean of the last
\* n non-null values of the prior history (of all of them when fewer than n
\* exist, null when none), in rolling_prior_mean and in last_n_avg.
C2_TrailingMean ==
  \A n \in Windows :
    /\ \A k \in LogRows :
         rolling_prior_mean(FullPts(k), n)[FullPos(k)] = RefTrailingMean(FullHistory(k), n)
    /\ \A k \in player_game_roster :
         last_n_avg(TargetPts(k), n) = RefTrailingMean(TargetPts(k), n)

-----------------------------------------------------------------------------
(* C3 *)

-----------------------------------------------------------------------------
(* C4 *)

\* aggregate and schedule fields of a record
Derived(r) ==
  <<r.pts_l3, r.pts_l5, r.pts_l10, r.pts_season_avg,
    r.days_rest, r.is_back_to_back, r.is_3_in_4, r.is_4_in_6>>

\* the game dates of season 2025-26
SeasonDates == {d \in Dates : d >= SeasonStartDay}

\* the record a backfill run over [start, end] writes for key k
BackfillWritten(start, end, chunk_days, k) ==
  CHOOSE r \in backfill_rows(logs, rowOrder, start, end, chunk_days, 0) : KeyOf(r) = k

\* C4: whatever --chunk-days, the aggregates and schedule flags a backfill
\* run writes for a row are computed from the player's complete history
\* before the row's date: they are the same for every chunk_days, and equal
\* those computed over the whole store.
C4_ChunkIndependent ==
  \A k \in LogRows, start \in SeasonDates, end \in SeasonDates :
    (start <= GameDate(k) /\ GameDate(k) <= end) =>
      \A c \in 1..MaxChunkDays :
        /\ Derived(BackfillWritten(start, end, c, k))
             = Derived(BackfillWritten(start, end, 1, k))
        /\ Derived(BackfillWritten(start, end, c, k))
             = Derived(compute_features(logs, rowOrder, NoDate, NoDate, k, 0))

-----------------------------------------------------------------------------
(* C5, C6 *)

SetMax(S) == CHOOSE x \in S : \A y \in S : y <= x

\* dates of the events of E of k's player before k's date
PriorEventDates(E, k) ==
  {GameDate(j) : j \in {e \in E : e[2] = k[2] /\ GameDate(e) < GameDate(k)}}

\* D - P for the nearest earlier event date P, null without one
RefDaysRest(E, k) ==
  IF PriorEventDates(E, k) = {} THEN NULL
  ELSE GameDate(k) - SetMax(PriorEventDates(E, k))

\* number of events of E of k's player dated in [D - back, D - 1]
RefCount(E, k, back) ==
  Cardinality({e \in E : /\ e[2] = k[2]
                         /\ GameDate(e) >= GameDate(k) - back
                         /\ GameDate(e) <= GameDate(k) - 1})

\* the schedule fields the pregame run over [start, end] computes for k
PregameFlags(start, end, k) ==
  compute_rolling_features(
    logs, pregame_hist(logs, pregame_targets(start, end), start, DefaultLookbackDays), k)

\* C5: days_rest is D - P for the player's nearest earlier event P, and null
\* without one; is_back_to_back is true iff days_rest = 1 and false without
\* a prior event; in the backfill path and in the pregame path, where an
\* upcoming game inside the window is an event too.
C5_RestFields ==
  /\ \A k \in LogRows :
       LET r == compute_features(logs, rowOrder, NoDate, NoDate, k, 0)
       IN /\ r.days_rest = RefDaysRest(LogRows, k)
          /\ r.is_back_to_back = (RefDaysRest(LogRows, k) = 1)
  /\ \A start \in PregameStarts, end \in PregameEnds :
       \A k \in pregame_targets(start, end) :
         LET E == LogRows \cup pregame_targets(start, end)
         IN (start <= end /\ ~pregame_raises(start, end)) =>
            /\ PregameFlags(start, end, k).days_rest = RefDaysRest(E, k)
            /\ PregameFlags(start, end, k).is_back_to_back = (RefDaysRest(E, k) = 1)

\* C6: is_3_in_4 is true iff at least 3 prior events of the player are dated
\* in [D-3, D-1], is_4_in_6 iff at least 4 are dated in [D-5, D-1]; the
\* target event and later events never count; in both paths.
C6_ShortRestFlags ==
  /\ \A k \in LogRows :
       LET r == compute_features(logs, rowOrder, NoDate, NoDate, k, 0)
       IN /\ r.is_3_in_4 = (RefCount(LogRows, k, 3) >= 3)
          /\ r.is_4_in_6 = (RefCount(LogRows, k, 5) >= 4)
  /\ \A k \in player_game_roster :
       LET a == PregameFlags(GameDate(k), GameDate(k), k)
       IN /\ a.is_3_in_4 = (RefCount(LogRows, k, 3) >= 3)
          /\ a.is_4_in_6 = (RefCount(LogRows, k, 5) >= 4)

-----------------------------------------------------------------------------
(* C7 *)

\* C7: for the same player, the same prior observations and the same target
\* date, the backfill path and the pregame path give the same days_rest,
\* is_back_to_back, is_3_in_4, is_4_in_6 and L3/L5/L10/season means.
C7_Parity ==
  \A k \in LogRows :
    LET before == SubSeq(FullGroup(k), 1, FullPos(k) - 1)
        prior  == pregame_prior(TargetHist(k), k)
    IN {before[i] : i \in 1..Len(before)} = {prior[i] : i \in 1..Len(prior)}
       => Derived(compute_features(logs, rowOrder, NoDate, NoDate, k, 0))
            = Derived(compute_rolling_features(logs, TargetHist(k), k))

-----------------------------------------------------------------------------
(* C8 *)

\* the directory's abbreviation of a team id, when it has one
HasEntry(team_id) == team_id # NULL /\ team_id \in DOMAIN team_id_to_team
MatchesTeam(k, team_id) ==
  HasEntry(team_id) /\ Upper(team_abbr_of(k)) = Upper(team_id_to_team[team_id])

RefIsHome(k) ==
  IF MatchesTeam(k, v_nba_games_all[k[1]].home_team_id) THEN "true"
  ELSE IF MatchesTeam(k, v_nba_games_all[k[1]].away_team_id) THEN "false"
  ELSE "null"

RefOpponent(k) ==
  IF MatchesTeam(k, v_nba_games_all[k[1]].home_team_id) THEN v_nba_games_all[k[1]].away_team_id
  ELSE IF MatchesTeam(k, v_nba_games_all[k[1]].away_team_id) THEN v_nba_games_all[k[1]].home_team_id
  ELSE NULL

\* C8: is_home is true iff the player's upper-cased abbreviation is the home
\* team's, false iff it is the away team's, null otherwise; opponent_team_id
\* is the other team's id, null iff is_home is null; resolution never raises
\* and never goes through a missing directory entry or a null team id.
C8_Resolution ==
  /\ \A k \in LogRows :
       /\ add_home_away(k).is_home = RefIsHome(k)
       /\ add_home_away(k).opponent_team_id = RefOpponent(k)
       /\ (add_home_away(k).is_home = "null") <=> (add_home_away(k).opponent_team_id = NULL)
  /\ \A k \in player_game_roster :
       /\ compute_is_home(k) # "raise"
       /\ compute_is_home(k) = RefIsHome(k)
       /\ compute_opp(k) = RefOpponent(k)
       /\ (compute_is_home(k) = "null") <=> (compute_opp(k) = NULL)

-----------------------------------------------------------------------------
(* C9 *)

StoredUnder(k) == {r \in features : KeyOf(r) = k}

\* C9: after any sequence of upserts, player_game_features holds exactly one
\* record for every key ever written and none for any other key, and every
\* field of the record is the one of the most recent write for the key.
\* The writes of a key are only ever appended to, so a key once stored stays
\* stored: the set of stored keys only grows.
C9_LastWriteWins ==
  \A k \in Keys :
    IF writes[k] = <<>> THEN StoredUnder(k) = {}
    ELSE /\ Cardinality(StoredUnder(k)) = 1
         /\ \A r \in StoredUnder(k), c \in FEATURE_COLS : r[c] = writes[k][Len(writes[k])][c]

\* a key written twice, by the pregame run and then by the backfill run,
\* whose stored record carries the observed pts of the second write
C9_Witness ==
  \E k \in Keys :
    /\ Len(writes[k]) = 2
    /\ writes[k][1].pts = NULL
    /\ writes[k][2].pts # NULL
    /\ \E r \in features : KeyOf(r) = k /\ r.pts = writes[k][2].pts

-----------------------------------------------------------------------------
(* C10 *)

\* a record without its provenance timestamp
StripComputedAt(r) == [c \in FEATURE_COLS \ {"computed_at"} |-> r[c]]

SameExceptComputedAt(A, B) ==
  /\ {StripComputedAt(r) : r \in A} = {StripComputedAt(r) : r \in B}
  /\ Cardinality(A) = Cardinality(B)

\* the store after a backfill run, and after a pregame run, started at time t
AfterBackfill(store, start, end, chunk_days, t) ==
  upsert(store, backfill_rows(logs, rowOrder, start, end, chunk_days, t))
AfterPregame(store, start, end, lookback_days, t) ==
  upsert(store, pregame_rows(logs, start, end, lookback_days, t))

-----------------------------------------------------------------------------
(* C11 *)

\* C11: once the record of a key is stored with an observed raw statistic,
\* no later step of the pipeline stores the key with a null raw statistic.
C11_RawNeverNulled ==
  [][\A k \in Keys :
       (\E r \in StoredUnder(k) : r.pts # NULL)
       => (\A r \in StoredUnder(k)' : r.pts # NULL)]_vars

-----------------------------------------------------------------------------
(* C12 *)

\* the windows and lookbacks of the pregame runs that reach the upsert
PregameArgs ==
  {a \in PregameStarts \X PregameEnds \X LookbackDays :
     a[1] <= a[2] /\ ~pregame_raises(a[1], a[2])}

\* the observations of k's player dated in [start - lookback_days, start)
PreEventRows(k, start, lookback_days) ==
  {j \in LogRows : /\ j[2] = k[2]
                   /\ GameDate(j) >= start - lookback_days
                   /\ GameDate(j) < start}

\* their pts cells, oldest first
PreEventPts(k, start, lookback_days) ==
  LET h == sort_values(PreEventRows(k, start, lookback_days), "asc")
  IN [j \in 1..Len(h) |-> logs[h[j]]]

\* C12: every row of a pregame run has a null raw statistic; its aggregates
\* and schedule fields are those of the player's observations before the
\* window, whatever the store holds for the target game itself; without
\* such observations the aggregates and days_rest are null and the
\* short-rest flags false.
C12_FutureRows ==
  \A a \in PregameArgs : \A k \in pregame_targets(a[1], a[2]) :
    LET r == pregame_record(logs, a[1], a[2], a[3], k, now)
        H == PreEventRows(k, a[1], a[3])
        h == PreEventPts(k, a[1], a[3])
    IN /\ r.pts = NULL
       /\ \A j \in H : GameDate(j) < GameDate(k)
       /\ \A n \in Windows :
            (CASE n = 3 -> r.pts_l3 [] n = 5 -> r.pts_l5 [] OTHER -> r.pts_l10)
              = RefTrailingMean(h, n)
       /\ r.pts_season_avg = RefCumulativeMean(h)
       /\ r.days_rest = RefDaysRest(H, k)
       /\ r.is_back_to_back = (RefDaysRest(H, k) = 1)
       /\ r.is_3_in_4 = (RefCount(H, k, 3) >= 3)
       /\ r.is_4_in_6 = (RefCount(H, k, 5) >= 4)
       /\ \A v \in PtsValues \cup {NULL, NoRow} :
            pregame_record([logs EXCEPT ![k] = v], a[1], a[2], a[3], k, now) = r
       /\ H = {} => /\ Aggregates(r) = <<NullMean, NullMean, NullMean, NullMean>>
                    /\ r.days_rest = NULL
                    /\ ~r.is_back_to_back /\ ~r.is_3_in_4 /\ ~r.is_4_in_6

\* a run that writes a row with the aggregates of earlier games for a game
\* whose own box score is already stored, and a run with a short lookback
\* that finds no earlier game of the player
C12_Witness ==
  \E a \in PregameArgs, a0 \in PregameArgs :
    \E k \in pregame_targets(a[1], a[2]), k0 \in pregame_targets(a0[1], a0[2]) :
      /\ logs[k] = 0
      /\ PreEventRows(k, a[1], a[3]) # {}
      /\ pregame_record(logs, a[1], a[2], a[3], k, now).pts = NULL
      /\ pregame_record(logs, a[1], a[2], a[3], k, now).pts_l3 = <<10, 1>>
      /\ PreEventRows(k0, a0[1], a0[3]) = {}
      /\ pregame_record(logs, a0[1], a0[2], a0[3], k0, now).days_rest = NULL

-----------------------------------------------------------------------------
(* C13 *)

Range(seq) == {seq[i] : i \in 1..Len(seq)}

\* C13: the records of the backfill path and of the pregame path carry the
\* same field names, the 38 names of FEATURE_COLS, none more and none less.
C13_SchemaParity ==
  /\ Range(backfill_columns) = Range(pregame_columns)
  /\ Cardinality(Range(pregame_columns)) = 38
  /\ Len(backfill_columns) = 38 /\ Len(pregame_columns) = 38
  /\ FEATURE_COLS = Range(pregame_columns) \ UntrackedCols
  /\ \A start \in BackfillStarts, end \in BackfillEnds, c \in 1..MaxChunkDays :
       \A r \in backfill_rows(logs, rowOrder, start, end, c, now) :
         DOMAIN r = Range(backfill_columns) \ UntrackedCols
  /\ \A a \in PregameArgs : \A r \in pregame_rows(logs, a[1], a[2], a[3], now) :
       DOMAIN r = Range(pregame_columns) \ UntrackedCols
  /\ \A k \in Keys : \A i \in 1..Len(writes[k]) :
       DOMAIN writes[k][i] = Range(pregame_columns) \ UntrackedCols

\* the store holds a record of a played game, written by the backfill run,
\* and a record of a game without a box score, written by the pregame run
C13_Witness ==
  \E k1, k2 \in Keys :
    /\ logs[k1] \in PtsValues /\ \E r \in StoredUnder(k1) : r.pts = logs[k1]
    /\ logs[k2] = NoRow /\ \E r \in StoredUnder(k2) : r.pts = NULL
    /\ \A r1 \in StoredUnder(k1), r2 \in StoredUnder(k2) : DOMAIN r1 = DOMAIN r2

-----------------------------------------------------------------------------
(* C14 *)

\* the season a materializer is about to write for row p
SeasonAtWrite(p) ==
  IF p.path = "pregame" THEN season_from_game_date_str(p.game_date) ELSE p.season

MissingSeason(s) == s = "" \/ s = NullSeason

\* C14: in the backfill and the pregame materializer, a row whose season is
\* null or empty is never stored, the run ends with an error instead; a row
\* with a season is stored whether or not its opponent and is_home are null.
C14_MandatorySeason ==
  (payload # NoPayload /\ payload.path \in {"backfill", "pregame"} /\ sent # NothingSent)
  => /\ MissingSeason(SeasonAtWrite(payload)) => sent = SendError
     /\ sent.status = "stored" => ~MissingSeason(sent.season)
     /\ (~MissingSeason(SeasonAtWrite(payload)) /\ payload.days_rest.kind \in {"none", "int"})
          => /\ sent.status = "stored"
             /\ sent.opponent_team_id = payload.opponent_team_id
             /\ sent.is_home = payload.is_home

-----------------------------------------------------------------------------
(* C15 *)

\* the cell holds an integral number
Lossless(c) == c.kind \in {"int", "float", "str"} /\ c.tenths % 10 = 0

\* C15: in every materializer, an integer-column value that is present and
\* not an integral number ends the batch with an error; an integral one is
\* stored as that integer; nothing is stored rounded or replaced by null.
C15_IntegerCoercion ==
  (payload # NoPayload /\ sent # NothingSent)
  => LET c == payload.days_rest
     IN /\ (c.kind # "none" /\ ~Lossless(c)) => sent = SendError
        /\ (Lossless(c) /\ ~MissingSeason(SeasonAtWrite(payload)))
             => sent.status = "stored" /\ sent.days_rest = c.tenths \div 10
        /\ (c.kind = "none" /\ sent.status = "stored") => sent.days_rest = NULL

-----------------------------------------------------------------------------
(* C16 *)

Scored == slate \in ScoreRows /\ prediction # NoPrediction

\* the larger of the trailing-10 and the season mean that are present
RefAnchor(r) == SetMax({r.l10, r.season_avg} \ {NULL})

\* C16: the final mean is max(blended mean, 0.85 * max(l10, season_avg)),
\* the max ignoring a missing one, when l10 or season_avg is present; it is
\* the blended mean when both are missing; it is never below the blended
\* mean.
C16_FloorAnchoring ==
  Scored =>
    /\ ({slate.l10, slate.season_avg} # {NULL})
         => prediction.model_mean
              = SetMax({prediction.mu_blended, 85 * RefAnchor(slate)})
    /\ ({slate.l10, slate.season_avg} = {NULL})
         => prediction.model_mean = prediction.mu_blended
    /\ prediction.model_mean >= prediction.mu_blended

\* l10 = 30 and season_avg = 20: a blended mean of 18 is raised to 25.5
C16_Witness ==
  /\ Scored
  /\ slate.l10 = 30 /\ slate.season_avg = 20
  /\ prediction.mu_blended = 1800
  /\ prediction.model_mean = 2550

-----------------------------------------------------------------------------
(* C17 *)

\* C17: the mean before the floor is (1 - w) * m + w * b with w = 0.35; a
\* row without a baseline is not blended with a baseline of zero.
C17_WeightedBlend ==
  Scored =>
    /\ slate.b # NULL => prediction.mu_blended = 65 * slate.m + 35 * slate.b
    /\ slate.b = NULL => prediction.mu_blended # 65 * slate.m

-----------------------------------------------------------------------------
(* C18 *)

-----------------------------------------------------------------------------
(* C19 *)

\* the residual standard deviation the notes record for the statistic, NULL
\* when they record none (no list, no entry, null, 0, a text that is no
\* number, NaN)
RefRecorded(notes) ==
  IF notes.kind = "list" /\ notes.resid_std.kind \in {"float", "str"}
     /\ notes.resid_std.value > 0
  THEN notes.resid_std.value ELSE NULL

\* C19: sigma is the residual standard deviation recorded for the statistic
\* when one is recorded, else 6.0 for PTS and 2.5 for REB, AST and PRA; it
\* is always a positive finite number.
C19_Sigma ==
  Scored =>
    /\ prediction.model_std
         = (IF RefRecorded(slate.notes) # NULL THEN RefRecorded(slate.notes)
            ELSE IF slate.stat = "PTS" THEN 600 ELSE 250)
    /\ prediction.model_std > 0

-----------------------------------------------------------------------------
(* C20 *)

Projected == slate \in ProjRows /\ prediction # NoPrediction

\* f is the 0.5 / 0.3 / 0.2 blend of the cells present in a, renormalised
IsBlendOf(f, a) ==
  LET w == [i \in 1..3 |-> IF a[i] = NULL THEN 0 ELSE <<5, 3, 2>>[i]]
  IN /\ f # NullMean
     /\ f[1] * (w[1] + w[2] + w[3])
          = f[2] * (w[1] * a[1] + w[2] * a[2] + w[3] * a[3])

-----------------------------------------------------------------------------
(* C30 *)

\* C30: daterange_chunks(start, end, chunk_days) with start <= end and
\* chunk_days >= 1 yields consecutive closed ranges that do not overlap, cover
\* every date of [start, end] exactly once, span at most chunk_days days
\* each, begin at start and finish at end; with start or end missing it
\* yields the single range (None, None); with start > end it yields nothing.
C30_Chunks ==
  call.fn = "daterange_chunks" =>
    LET cs == call.result
        s  == call.start
        e  == call.end
    IN IF s = NoDate \/ e = NoDate THEN cs = <<<<NoDate, NoDate>>>>
       ELSE IF s > e THEN cs = <<>>
       ELSE /\ Len(cs) >= 1
            /\ cs[1][1] = s /\ cs[Len(cs)][2] = e
            /\ \A i \in 1..Len(cs) :
                 /\ cs[i][1] <= cs[i][2]
                 /\ cs[i][2] - cs[i][1] + 1 <= call.chunk_days
            /\ \A i \in 1..(Len(cs) - 1) : cs[i + 1][1] = cs[i][2] + 1
            /\ \A d \in s..e :
                 Cardinality({i \in 1..Len(cs) : cs[i][1] <= d /\ d <= cs[i][2]}) = 1

\* five days cut into chunks of two: two full chunks and a last one of one day
C30_Witness ==
  /\ call.fn = "daterange_chunks"
  /\ call.start = 1 /\ call.end = 5 /\ call.chunk_days = 2
  /\ call.result = <<<<1, 2>>, <<3, 4>>, <<5, 5>>>>

-----------------------------------------------------------------------------
(* C23 *)

\* C23: fetch_all requests the pages at offsets 0, p, 2p, ... and stops at
\* the first page shorter than p; against a store whose N rows stay the same
\* and keep their order it makes floor(N / p) + 1 requests, never more, and
\* returns each of the N rows exactly once, in order, also when N is a
\* multiple of p or zero.
C23_PagedRead ==
  pager.pc # "none" =>
    LET N == pager.rows
        p == pager.page_size
    IN /\ pager.requests <= (N \div p) + 1
       /\ pager.pc = "loop" =>
            /\ pager.offset = pager.requests * p
            /\ pager.offset <= N
            /\ pager.out = [i \in 1..pager.offset |-> i]
       /\ pager.pc = "returned" =>
            /\ pager.requests = (N \div p) + 1
            /\ pager.offset = (pager.requests - 1) * p
            /\ pager.out = [i \in 1..N |-> i]

\* four rows read in pages of two: two full pages and an empty third one
C23_Witness ==
  /\ pager.pc = "returned"
  /\ pager.rows = 4 /\ pager.page_size = 2
  /\ pager.requests = 3
  /\ pager.out = <<1, 2, 3, 4>>

-----------------------------------------------------------------------------
(* C25 *)

\* C25: whenever SUPABASE_URL or SUPABASE_SERVICE_ROLE is absent or empty in
\* the environment of a script, supa() fails with a fatal error instead of
\* returning a client, and no supa() puts a built-in value in the place of a
\* missing credential.
C25_ConfigError ==
  call.fn = "supa" =>
    /\ (call.SUPABASE_URL # "set" \/ call.SUPABASE_SERVICE_ROLE # "set")
         => call.result.outcome = "RuntimeError"
    /\ call.result.url # "builtin" /\ call.result.key # "builtin"

-----------------------------------------------------------------------------
(* C21 *)

\* the fetch_boxscore_frames call in progress or last ended
Fetching == sync.pc # "none" /\ sync.tries # <<>>

\* what holds of the attempts of a call at every moment
RetryInvariant ==
  Fetching =>
    LET n == Len(sync.tries)
    IN /\ n <= 5
       /\ \A j \in 1..(n - 1) : sync.tries[j] = "transient"
       /\ Len(sync.delays) = Cardinality({j \in 1..n : sync.tries[j] = "transient"})
       /\ \A j \in 1..Len(sync.delays) : sync.delays[j] = j * RETRY_BASE_DELAY
       /\ \A j \in 1..(Len(sync.delays) - 1) : sync.delays[j] < sync.delays[j + 1]
       /\ sync.returned = "calling" <=> (n < 5 /\ sync.tries[n] = "transient")
       /\ sync.returned = "exhausted" <=> (n = 5 /\ sync.tries[n] = "transient")
       /\ sync.returned = "frames" <=> sync.tries[n] = "frames"

\* C21: fetch_boxscore_frames makes at most five attempts for a game; an
\* attempt that does not fail with a transient error ends the call, so the
\* frames of the first successful attempt are returned without a further
\* attempt; after the failed attempt number n it waits n * RETRY_BASE_DELAY,
\* a strictly increasing delay; after the fifth transient failure it
\* returns an empty result; a call in progress always ends.
C21_BoundedRetry ==
  /\ []RetryInvariant
  /\ (sync.pc = "fetch" /\ sync.returned = "calling")
       ~> (sync.pc # "fetch" \/ sync.returned # "calling")

\* a call that gives up after five failures, having waited 1, 2, 3, 4 and 5
\* seconds
C21_Witness ==
  /\ Fetching
  /\ sync.tries = <<"transient", "transient", "transient", "transient", "transient">>
  /\ sync.delays = <<1, 2, 3, 4, 5>>
  /\ sync.returned = "exhausted"

-----------------------------------------------------------------------------
(* C22 *)

\* the range of a tuple
Targets == {sync.target_ids[j] : j \in 1..Len(sync.target_ids)}

RowsOf(g) == {k \in Keys : k[1] = g}

\* C22: in a sync run, a game whose fetch or normalisation fails (retries
\* exhausted, no player frame, or any other exception) contributes no rows
\* and the loop goes on with the remaining targets; the rows buffered for
\* the other games are upserted; every target is processed exactly once.
C22_FailureIsolation ==
  (sync.pc \in {"fetch", "write", "done"} /\ ~sync.dry_run) =>
    /\ \A g \in Games : sync.calls[g] <= 1
    /\ \A g \in Games \ Targets : sync.calls[g] = 0 /\ sync.result[g] = "none"
    /\ \A j \in 1..Len(sync.target_ids) :
         LET g == sync.target_ids[j]
         IN /\ (j < sync.i) <=> (sync.result[g] # "none")
            /\ sync.result[g] = "frames" <=> RowsOf(g) \subseteq sync.to_upsert
            /\ sync.result[g] # "frames" => RowsOf(g) \cap sync.to_upsert = {}
    /\ sync.pc \in {"write", "done"} =>
         \A g \in Targets : sync.calls[g] = 1 /\ sync.result[g] # "none"
    /\ sync.pc = "done" =>
         \A g \in Games : \A k \in RowsOf(g) :
           logs[k] = IF sync.result[g] = "frames" THEN BoxPts ELSE sync.before[k]

\* a finished run of four targets in which the second game raised, the third
\* ran out of retries, and the rows of the first and the fourth were written
C22_Witness ==
  /\ sync.pc = "done" /\ ~sync.dry_run
  /\ sync.target_ids = <<1, 2, 3, 4>>
  /\ sync.result[1] = "frames" /\ sync.result[2] = "raised"
  /\ sync.result[3] = "exhausted" /\ sync.result[4] = "frames"
  /\ logs[<<1, 1>>] = BoxPts /\ logs[<<4, 1>>] = BoxPts
  /\ logs[<<2, 1>>] = NoRow /\ logs[<<3, 1>>] = NoRow

-----------------------------------------------------------------------------
(* C29 *)

\* C29: in a sync run that is not a dry run, a game of the enumerated window
\* is fetched iff it had no row in the destination table when the run
\* started or its date is within recent_days days of today; games outside
\* the window are not fetched.
C29_TargetSet ==
  (sync.pc \in {"write", "done"} /\ ~sync.dry_run) =>
    /\ \A g \in sync.games :
         (sync.calls[g] >= 1)
           <=> \/ \A k \in RowsOf(g) : sync.before[k] = NoRow
               \/ v_nba_games_all[g].game_date >= SyncToday - sync.recent_days
    /\ \A g \in Games \ sync.games : sync.calls[g] = 0

\* a second run over a window in which one game is stored and old (skipped),
\* one stored and recent (fetched again) and one missing (fetched)
C29_Witness ==
  /\ sync.pc = "done" /\ ~sync.dry_run /\ sync.runs = 2
  /\ sync.games = {3, 4, 5} /\ sync.recent_days = 0
  /\ sync.before[<<3, 1>>] = BoxPts /\ sync.calls[3] = 0
  /\ sync.before[<<5, 1>>] = BoxPts /\ sync.calls[5] = 1
  /\ sync.before[<<4, 1>>] = NoRow /\ sync.calls[4] = 1

-----------------------------------------------------------------------------
(* C27 *)

\* C27: a row whose home/away side is unresolved (is_home null) is stored
\* with is_home null by every materializer, the truth snapshot included;
\* none turns it into false, and the null does not stop the row.
C27_UnresolvedStaysNull ==
  (payload # NoPayload /\ sent # NothingSent /\ payload.is_home = "null")
  => /\ sent.status = "stored" => sent.is_home = "null"
     /\ (~MissingSeason(SeasonAtWrite(payload)) /\ payload.days_rest.kind \in {"none", "int"})
          => sent.status = "stored"

-----------------------------------------------------------------------------
(* C28 *)

\* the store without the observations of other seasons than that of k
SameSeasonLogs(k) == [j \in Keys |-> IF Season(j) = Season(k) THEN logs[j] ELSE NoRow]

\* the pts of every observation of k's player dated before k, oldest first
AllPriorPts(k) ==
  LET h == sort_values({j \in LogRows : j[2] = k[2] /\ GameDate(j) < GameDate(k)}, "asc")
  IN [j \in 1..Len(h) |-> logs[h[j]]]

\* the backfill half: nothing of another season reaches a row
BackfillPerSeason ==
  \A k \in LogRows :
    compute_features(logs, rowOrder, NoDate, NoDate, k, 0)
      = compute_features(SameSeasonLogs(k), rowOrder, NoDate, NoDate, k, 0)

\* C28: in the backfill path the aggregates and schedule flags of a row are
\* computed per (season, player), no observation of another season
\* contributes; in the pregame path the cumulative mean of a target is taken
\* over every observation of the player dated before the target, whatever
\* its season and however old.
C28_GroupingScope ==
  /\ BackfillPerSeason
  /\ \A a \in PregameArgs : \A k \in pregame_targets(a[1], a[2]) :
       pregame_record(logs, a[1], a[2], a[3], k, now).pts_season_avg
         = RefCumulativeMean(AllPriorPts(k))

-----------------------------------------------------------------------------
(* C24 *)

\* C24: a run started with --dry-run issues no upsert: a backfill or pregame
\* dry run sends no row and leaves player_game_features as it was while
\* computing the rows a plain run would send; a dry run of the box-score
\* sync fetches and writes nothing and leaves the raw store as it was.
C24_DryRun ==
  /\ (run # NoRun /\ run.dry_run) =>
       /\ run.sent = {}
       /\ features = run.before
       /\ run.teams = "full" =>
            run.computed =
              IF run.script = "backfill_features"
              THEN backfill_rows(logs, rowOrder, run.start, run.end, run.arg, now)
              ELSE pregame_rows(logs, run.start, run.end, run.arg, now)
  /\ (sync # NoSync /\ sync.dry_run) =>
       /\ sync.pc = "done"
       /\ \A g \in Games : sync.calls[g] = 0
       /\ sync.to_upsert = {}
       /\ logs = sync.before

\* a dry run that computed rows over a feature table an earlier run had
\* filled, and left the table as it was
C24_Witness ==
  /\ run # NoRun /\ run.dry_run
  /\ run.computed # {}
  /\ run.before # {}
  /\ features = run.before
  /\ \E r \in run.computed : r \notin features

-----------------------------------------------------------------------------
(* C26 *)

\* C26: a backfill or pregame run that finds team_id_to_team empty ends with
\* a fatal error before it computes or writes any feature row.
C26_EmptyReferenceData ==
  (run # NoRun /\ run.teams = "empty") =>
    /\ run.outcome \in {"RuntimeError", "raised"}
    /\ run.computed = {}
    /\ run.sent = {}
    /\ features = run.before

=============================================================================
